---- MODULE Spec2Model ----
(***************************************************************************)
(* Model of packages/subgraph/src/subgraph.ts: the Subgraph class, its two *)
(* asynchronous readers getGroups and getGroup, the query text they build  *)
(* and the normalization they apply to the decoded response.               *)
(*                                                                         *)
(* JavaScript values are records tagged with their typeof kind.  A query   *)
(* text is the sequence of its tokens, in the order of the template.       *)
(***************************************************************************)
EXTENDS Integers, Sequences, FiniteSets, TLC

VARIABLES pc, op, groupId, options, members, query, calls, response, result, err,
          normalized

vars == <<pc, op, groupId, options, members, query, calls, response, result, err,
          normalized>>

(***************************************************************************)
(* Bounds of the model.                                                    *)
(***************************************************************************)
MaxGroups == 2
MaxMembers == 2

(***************************************************************************)
(* JavaScript values.                                                      *)
(***************************************************************************)
Undefined == [kind |-> "undefined", val |-> ""]
True == [kind |-> "boolean", val |-> "true"]
False == [kind |-> "boolean", val |-> "false"]
Str(s) == [kind |-> "string", val |-> s]
Num(s) == [kind |-> "number", val |-> s]
Null == [kind |-> "object", val |-> "null"]
Date(y, m, d) == [kind |-> "object", val |-> "Date", year |-> y, month |-> m, day |-> d]

TypeOf(v) == v.kind

Truthy(v) ==
    CASE v.kind = "undefined" -> FALSE
      [] v.kind = "boolean" -> v.val = "true"
      [] v.kind = "string" -> v.val # ""
      [] v.kind = "number" -> v.val # "0"
      [] v = Null -> FALSE
      [] OTHER -> TRUE

\* Property read: a field the object does not carry reads as undefined.
Get(obj, field) == IF field \in DOMAIN obj THEN obj[field] ELSE Undefined

\* Destructuring default: `const { x = d } = o`.
Default(v, d) == IF v = Undefined THEN d ELSE v

(***************************************************************************)
(* Errors.                                                                 *)
(***************************************************************************)
NoError == [name |-> "none", detail |-> ""]
InvalidParameterError(param, type) ==
    [name |-> "InvalidParameterError", detail |-> param \o ":" \o type]
TypeError(what) == [name |-> "TypeError", detail |-> what]
TransportError(what) == [name |-> "TransportError", detail |-> what]

TransportErrors == {TransportError("network"), TransportError("status 500")}

(***************************************************************************)
(* External collaborators, whose code is not part of the source file.      *)
(***************************************************************************)
\* checkParameter(value, name, type): fails when the runtime type differs.
checkParameter(value, name, type) ==
    IF TypeOf(value) # type THEN InvalidParameterError(name, type) ELSE NoError

Pad2(n) == IF n < 10 THEN "0" \o ToString(n) ELSE ToString(n)

\* jsDateToGraphqlDate(date): the service's date literal, YYYY-MM-DD.
jsDateToGraphqlDate(date) ==
    ToString(date.year) \o "-" \o Pad2(date.month) \o "-" \o Pad2(date.day)

(***************************************************************************)
(* Query Builder.                                                          *)
(***************************************************************************)
NoQuery == <<>>

Quote(s) == "\"" \o s \o "\""

\* `if (admin) filterFragments.push(...)`.
adminFragment(filters) ==
    LET admin == Get(filters, "admin")
    IN  IF Truthy(admin) THEN <<"admin: " \o Quote(admin.val)>> ELSE <<>>

\* The chain with the lower bound tested before the exact match.
timestampFragmentGteFirst(filters) ==
    LET timestamp == Get(filters, "timestamp")
        timestampGte == Get(filters, "timestampGte")
        timestampLte == Get(filters, "timestampLte")
    IN  IF Truthy(timestampGte)
        THEN <<"timestamp_gte: " \o Quote(jsDateToGraphqlDate(timestampGte))>>
        ELSE IF Truthy(timestamp)
        THEN <<"timestamp: " \o Quote(jsDateToGraphqlDate(timestamp))>>
        ELSE IF Truthy(timestampLte)
        THEN <<"timestamp_lte: " \o Quote(jsDateToGraphqlDate(timestampLte))>>
        ELSE <<>>

\* The if / else if / else if chain over the three time filters.
timestampFragment(filters) ==
    LET timestamp == Get(filters, "timestamp")
        timestampGte == Get(filters, "timestampGte")
        timestampLte == Get(filters, "timestampLte")
    IN  IF Truthy(timestamp)
        THEN <<"timestamp: " \o Quote(jsDateToGraphqlDate(timestamp))>>
        ELSE IF Truthy(timestampGte)
        THEN <<"timestamp_gte: " \o Quote(jsDateToGraphqlDate(timestampGte))>>
        ELSE IF Truthy(timestampLte)
        THEN <<"timestamp_lte: " \o Quote(jsDateToGraphqlDate(timestampLte))>>
        ELSE <<>>

filterFragments(filters) == adminFragment(filters) \o timestampFragment(filters)

\* Array.prototype.join(', ') as tokens: the separator between two elements.
RECURSIVE Join(_)
Join(frags) ==
    IF Len(frags) = 0 THEN <<>>
    ELSE IF Len(frags) = 1 THEN frags
    ELSE <<Head(frags), ", ">> \o Join(Tail(frags))

filtersQuery(opts) ==
    LET filters == Get(opts, "filters")
    IN  IF Truthy(filters)
        THEN LET fragments == filterFragments(filters)
             IN  IF Len(fragments) > 0
                 THEN <<"(where: {">> \o Join(fragments) \o <<"})">>
                 ELSE <<>>
        ELSE <<>>

membersSelection(m) ==
    IF m = True THEN <<"members(orderBy: index)", "{", "identityCommitment", "}">>
    ELSE <<>>

verifiedProofsSelection(vp) ==
    IF vp = True
    THEN <<"verifiedProofs(orderBy: timestamp)", "{", "signal", "merkleTreeRoot",
           "externalNullifier", "nullifierHash", "timestamp", "}">>
    ELSE <<>>

\* The body with the two flags exchanged.
selectionFlagsSwapped(m, vp) ==
    <<"id", "merkleTree", "{", "root", "depth", "zeroValue", "numberOfLeaves", "}",
      "admin">> \o membersSelection(vp) \o verifiedProofsSelection(m)

\* The body of `groups ... { }` in both templates.
selection(m, vp) ==
    <<"id", "merkleTree", "{", "root", "depth", "zeroValue", "numberOfLeaves", "}",
      "admin">> \o membersSelection(m) \o verifiedProofsSelection(vp)

getGroupsQuery(opts, m, vp) ==
    <<"{", "groups">> \o filtersQuery(opts) \o <<"{">> \o selection(m, vp)
        \o <<"}", "}">>

getGroupQuery(id, m, vp) ==
    <<"{", "groups", "(where: {", "id: " \o Quote(id.val), "})", "{">>
        \o selection(m, vp) \o <<"}", "}">>

(***************************************************************************)
(* The synchronous part of each reader, up to its await: the checks, the   *)
(* query and the request handed to the transport.                          *)
(***************************************************************************)
EmptyObject == [kind |-> "object", val |-> "Object"]

Rejected(e) == [err |-> e, query |-> NoQuery, members |-> False, calls |-> 0]
Requested(q, m) == [err |-> NoError, query |-> q, members |-> m, calls |-> 1]

\* The checks without the one on verifiedProofs.
checkOptionsNoProofsCheck(o) ==
    LET e1 == checkParameter(o, "options", "object")
        e2 == checkParameter(Default(Get(o, "members"), False), "members", "boolean")
    IN  IF e1 # NoError THEN e1
        ELSE IF o = Null THEN TypeError("Cannot destructure null")
        ELSE e2

\* The three checks on the option set, in the order of the code; null is of
\* type "object", and destructuring it throws.
checkOptions(o) ==
    LET e1 == checkParameter(o, "options", "object")
        e2 == checkParameter(Default(Get(o, "members"), False), "members", "boolean")
        e3 == checkParameter(Default(Get(o, "verifiedProofs"), False),
                             "verifiedProofs", "boolean")
    IN  IF e1 # NoError THEN e1
        ELSE IF o = Null THEN TypeError("Cannot destructure null")
        ELSE IF e2 # NoError THEN e2
        ELSE e3

getGroupsStart(opts) ==
    LET o == Default(opts, EmptyObject)
        e == checkOptions(o)
        m == Default(Get(o, "members"), False)
        vp == Default(Get(o, "verifiedProofs"), False)
    IN  IF e # NoError THEN Rejected(e)
        ELSE Requested(getGroupsQuery(o, m, vp), m)

\* getGroup without the check on groupId.
getGroupStartNoIdCheck(id, opts) ==
    LET o == Default(opts, EmptyObject)
        e == checkOptions(o)
        m == Default(Get(o, "members"), False)
        vp == Default(Get(o, "verifiedProofs"), False)
    IN  IF e # NoError THEN Rejected(e)
        ELSE Requested(getGroupQuery(id, m, vp), m)

getGroupStart(id, opts) ==
    LET o == Default(opts, EmptyObject)
        e0 == checkParameter(id, "groupId", "string")
        e == checkOptions(o)
        m == Default(Get(o, "members"), False)
        vp == Default(Get(o, "verifiedProofs"), False)
    IN  IF e0 # NoError THEN Rejected(e0)
        ELSE IF e # NoError THEN Rejected(e)
        ELSE Requested(getGroupQuery(id, m, vp), m)

(***************************************************************************)
(* Response Normalizer: the part of each reader after its await.           *)
(***************************************************************************)
\* The map walking the raw members from the last to the first.
unwrapMembersReversed(ms) ==
    [i \in 1..Len(ms) |-> Get(ms[Len(ms) + 1 - i], "identityCommitment")]

\* `group.members.map((member) => member.identityCommitment)`.
unwrapMembers(ms) == [i \in 1..Len(ms) |-> Get(ms[i], "identityCommitment")]

\* A normalized group rebuilt from its id and members alone.
normalizeGroupRebuilt(group) ==
    [id |-> group.id, members |-> unwrapMembers(group.members)]

normalizeGroup(group) == [group EXCEPT !.members = unwrapMembers(@)]

Returned(v) == [err |-> NoError, value |-> v]
Thrown(e) == [err |-> e, value |-> Undefined]

getGroupsFinish(groups, m) ==
    IF Truthy(m)
    THEN Returned([i \in 1..Len(groups) |-> normalizeGroup(groups[i])])
    ELSE Returned(groups)

\* groups[0] of an empty array is undefined; reading .members of it throws.
getGroupFinish(groups, m) ==
    IF Truthy(m)
    THEN IF Len(groups) = 0
         THEN Thrown(TypeError("Cannot read properties of undefined"))
         ELSE Returned(normalizeGroup(groups[1]))
    ELSE IF Len(groups) = 0 THEN Returned(Undefined) ELSE Returned(groups[1])

\* A rejected await answered by a second request.
awaitRejectedRetry(e, n) == [err |-> e, calls |-> n + 1, normalized |-> FALSE]

\* A rejected await inside an async function with no try/catch.
awaitRejected(e, n) == [err |-> e, calls |-> n, normalized |-> FALSE]


(***************************************************************************)
(* Inputs: what a caller may pass, what the service may answer.            *)
(***************************************************************************)
T1 == Date(2023, 1, 5)
T2 == Date(2022, 11, 30)
T3 == Date(2024, 2, 9)

AdminValues == {Undefined, Str(""), Str("0xabc")}

AllFilters ==
    {Undefined} \cup
    {[kind |-> "object", val |-> "Object", admin |-> a, timestamp |-> t,
      timestampGte |-> g, timestampLte |-> l] :
        a \in AdminValues, t \in {Undefined, T1}, g \in {Undefined, T2},
        l \in {Undefined, T3}}

SomeFilters ==
    {Undefined,
     [kind |-> "object", val |-> "Object", admin |-> Str("0xabc"),
      timestamp |-> Undefined, timestampGte |-> T2, timestampLte |-> Undefined]}

FlagValues == {Undefined, True, False, Str("yes")}

OptionValues(filterSet) ==
    {Undefined, Null, Num("5")} \cup
    {[kind |-> "object", val |-> "Object", members |-> m, verifiedProofs |-> vp,
      filters |-> f] : m \in FlagValues, vp \in {True, False, Num("1")},
                       f \in filterSet}

GroupIdValues == {Undefined, Num("42"), Str(""), Str("42")}

\* A raw member record: the wrapper around one identifier, or a record that
\* does not carry the identifier field.
MemberRecords ==
    {[identityCommitment |-> Str("5")], [identityCommitment |-> Str("9")],
     [index |-> Num("0")]}

MemberLists(maxM) == UNION {[1..n -> MemberRecords] : n \in 0..maxM}

Proofs ==
    <<[signal |-> Str("s1"), merkleTreeRoot |-> Str("r1"),
       externalNullifier |-> Str("e1"), nullifierHash |-> Str("n1"),
       timestamp |-> Str("1700000000")]>>

MerkleTree(i) ==
    [root |-> Str("root" \o ToString(i)), depth |-> Num("20"), zeroValue |-> Str("0"),
     numberOfLeaves |-> Num(ToString(i))]

\* The i-th raw group of an answer to a query that asked for members (m) and
\* verified proofs (vp): it carries the fields the query selected.
RawGroup(i, ms, m, vp) ==
    LET base == [id |-> Str("g" \o ToString(i)), merkleTree |-> MerkleTree(i),
                 admin |-> Str("0xabc")]
    IN  CASE m /\ vp -> base @@ [members |-> ms, verifiedProofs |-> Proofs]
          [] m /\ ~vp -> base @@ [members |-> ms]
          [] ~m /\ vp -> base @@ [verifiedProofs |-> Proofs]
          [] OTHER -> base

HasToken(q, tok) == \E i \in 1..Len(q) : q[i] = tok

Responses(q, maxG, maxM) ==
    LET m == HasToken(q, "members(orderBy: index)")
        vp == HasToken(q, "verifiedProofs(orderBy: timestamp)")
        lists == IF m THEN MemberLists(maxM) ELSE {<<>>}
    IN  {[groups |-> [i \in 1..Len(f) |-> RawGroup(i, f[i], m, vp)]] :
            f \in UNION {[1..n -> lists] : n \in 0..maxG}}

(***************************************************************************)
(* The state machine: one call at a time, suspended at its await.          *)
(***************************************************************************)
Init ==
    /\ pc = "idle"
    /\ op = "none"
    /\ groupId = Undefined
    /\ options = Undefined
    /\ members = False
    /\ query = NoQuery
    /\ calls = 0
    /\ response = Undefined
    /\ result = Undefined
    /\ err = NoError
    /\ normalized = FALSE

\* getGroups(options), from its entry to its await (or to the error it throws).
GetGroupsCall(optionSet) ==
    /\ pc = "idle"
    /\ \E o \in optionSet :
        LET r == getGroupsStart(o)
        IN  /\ op' = "getGroups"
            /\ groupId' = Undefined
            /\ options' = o
            /\ members' = r.members
            /\ query' = r.query
            /\ calls' = r.calls
            /\ err' = r.err
            /\ pc' = IF r.err = NoError THEN "awaiting" ELSE "done"
    /\ UNCHANGED <<response, result, normalized>>

\* getGroup(groupId, options), from its entry to its await.
GetGroupCall(optionSet) ==
    /\ pc = "idle"
    /\ \E id \in GroupIdValues, o \in optionSet :
        LET r == getGroupStart(id, o)
        IN  /\ op' = "getGroup"
            /\ groupId' = id
            /\ options' = o
            /\ members' = r.members
            /\ query' = r.query
            /\ calls' = r.calls
            /\ err' = r.err
            /\ pc' = IF r.err = NoError THEN "awaiting" ELSE "done"
    /\ UNCHANGED <<response, result, normalized>>

\* The transport answers; getGroups resumes, normalizes and returns.
GetGroupsResume(maxG, maxM) ==
    /\ pc = "awaiting"
    /\ op = "getGroups"
    /\ \E resp \in Responses(query, maxG, maxM) :
        LET r == getGroupsFinish(resp.groups, members)
        IN  /\ response' = resp
            /\ result' = r.value
            /\ err' = r.err
    /\ normalized' = TRUE
    /\ pc' = "done"
    /\ UNCHANGED <<op, groupId, options, members, query, calls>>

\* The transport answers; getGroup resumes, normalizes and returns.
GetGroupResume(maxG, maxM) ==
    /\ pc = "awaiting"
    /\ op = "getGroup"
    /\ \E resp \in Responses(query, maxG, maxM) :
        LET r == getGroupFinish(resp.groups, members)
        IN  /\ response' = resp
            /\ result' = r.value
            /\ err' = r.err
    /\ normalized' = TRUE
    /\ pc' = "done"
    /\ UNCHANGED <<op, groupId, options, members, query, calls>>

\* The transport fails; the awaiting reader rejects.
TransportFails ==
    /\ pc = "awaiting"
    /\ \E e \in TransportErrors :
        LET r == awaitRejected(e, calls)
        IN  /\ response' = [rejected |-> e]
            /\ err' = r.err
            /\ calls' = r.calls
            /\ normalized' = r.normalized
    /\ pc' = "done"
    /\ UNCHANGED <<op, groupId, options, members, query, result>>

\* The caller has the outcome; the next call is independent of this one.
Return ==
    /\ pc = "done"
    /\ pc' = "idle"
    /\ op' = "none"
    /\ groupId' = Undefined
    /\ options' = Undefined
    /\ members' = False
    /\ query' = NoQuery
    /\ calls' = 0
    /\ response' = Undefined
    /\ result' = Undefined
    /\ err' = NoError
    /\ normalized' = FALSE

\* Calls with few filter sets, answers up to the bounds.
CallGroups == GetGroupsCall(OptionValues(SomeFilters))
CallGroup == GetGroupCall(OptionValues(SomeFilters))
ResumeGroups == GetGroupsResume(MaxGroups, MaxMembers)
\* A group id is a key of the service: an id query matches at most one group.
ResumeGroup == GetGroupResume(1, MaxMembers)

Next == CallGroups \/ CallGroup \/ ResumeGroups \/ ResumeGroup \/ TransportFails
            \/ Return

Spec == Init /\ [][Next]_vars

\* Calls with every filter set, short answers.
CallGroupsAnyFilter == GetGroupsCall(OptionValues(AllFilters))
ResumeGroupsShort == GetGroupsResume(1, 1)
ResumeGroupShort == GetGroupResume(1, 1)

NextQuery == CallGroupsAnyFilter \/ CallGroup \/ ResumeGroupsShort \/ ResumeGroupShort
                \/ TransportFails \/ Return

SpecQuery == Init /\ [][NextQuery]_vars

(***************************************************************************)
(* Properties.                                                             *)
(***************************************************************************)
\* What the caller passed, read as the spec words it.
FlagOn(name) == Get(options, name) = True
FiltersGiven == Get(options, "filters")
Present(name) == FiltersGiven # Undefined /\ Get(FiltersGiven, name) # Undefined
AnyFilterPresent ==
    Present("admin") \/ Present("timestamp") \/ Present("timestampGte")
        \/ Present("timestampLte")

Answered == pc = "done" /\ normalized
RawGroups == response.groups

\* C1: getGroup returns an absent value and raises no error when the
\* transport's answer holds an empty groups sequence, whatever the options.
C1_EmptyAnswerIsAbsent ==
    (Answered /\ op = "getGroup" /\ Len(RawGroups) = 0)
        => (err = NoError /\ result = Undefined)

TimeTokens ==
    {n \o ": " \o Quote(d) :
        n \in {"timestamp", "timestamp_gte", "timestamp_lte"},
        d \in {"2023-01-05", "2022-11-30", "2024-02-09"}}
IsTimeToken(t) == t \in TimeTokens
ExpectedTimeTokens ==
    IF Present("timestamp") THEN <<"timestamp: \"2023-01-05\"">>
    ELSE IF Present("timestampGte") THEN <<"timestamp_gte: \"2022-11-30\"">>
    ELSE IF Present("timestampLte") THEN <<"timestamp_lte: \"2024-02-09\"">>
    ELSE <<>>

\* C2: the query of getGroups holds at most one time fragment: the exact match
\* if timestamp is present, else the lower bound if timestampGte is present,
\* else the upper bound if timestampLte is present, else none; and the value
\* in it is the encoding of the winning field.
C2_TimestampPrecedence ==
    (op = "getGroups" /\ calls = 1)
        => SelectSeq(query, IsTimeToken) = ExpectedTimeTokens
C2_Witness ==
    /\ op = "getGroups" /\ calls = 1
    /\ Present("timestamp") /\ Present("timestampGte") /\ Present("timestampLte")
    /\ HasToken(query, "timestamp: \"2023-01-05\"")

\* C3: the query of getGroups holds a where-clause if and only if at least
\* one of admin, timestamp, timestampGte, timestampLte is present.
C3_WhereIffFilterPresent ==
    (op = "getGroups" /\ calls = 1)
        => (HasToken(query, "(where: {") <=> AnyFilterPresent)

FirstId(q) == CHOOSE i \in 1..Len(q) : q[i] = "id" /\ \A j \in 1..(i - 1) : q[j] # "id"
SelectionOf(q) == SubSeq(q, FirstId(q), Len(q) - 2)
ExpectedSelection ==
    <<"id", "merkleTree", "{", "root", "depth", "zeroValue", "numberOfLeaves", "}",
      "admin">>
    \o (IF FlagOn("members")
        THEN <<"members(orderBy: index)", "{", "identityCommitment", "}">>
        ELSE <<>>)
    \o (IF FlagOn("verifiedProofs")
        THEN <<"verifiedProofs(orderBy: timestamp)", "{", "signal", "merkleTreeRoot",
               "externalNullifier", "nullifierHash", "timestamp", "}">>
        ELSE <<>>)

\* C4: both queries select exactly id, the four merkleTree fields and admin,
\* then the members sub-selection (by index, identifier only) iff members is
\* true, then the verifiedProofs sub-selection (by timestamp, five fields) iff
\* verifiedProofs is true; nothing else.
C4_ExactSelection ==
    calls = 1
        => /\ HasToken(query, "id")
           /\ query[FirstId(query) - 1] = "{"
           /\ SelectionOf(query) = ExpectedSelection
           /\ SubSeq(query, Len(query) - 1, Len(query)) = <<"}", "}">>
C4_Witness ==
    /\ op = "getGroup" /\ calls = 1
    /\ FlagOn("members") /\ ~FlagOn("verifiedProofs")
    /\ HasToken(query, "identityCommitment")
    /\ ~HasToken(query, "signal")

IdentifierOf(rec) ==
    IF "identityCommitment" \in DOMAIN rec THEN rec.identityCommitment ELSE Undefined
MembersUnwrapped(g, raw) ==
    /\ Len(g.members) = Len(raw.members)
    /\ \A j \in 1..Len(raw.members) : g.members[j] = IdentifierOf(raw.members[j])

\* C5: with members true, each returned group's members has the length of the
\* raw members and its i-th element is the identifier field of the i-th raw
\* record; getGroups returns as many groups as the answer, in its order.
C5_MembersUnwrappedInOrder ==
    (Answered /\ err = NoError)
        => /\ op = "getGroups"
                => /\ Len(result) = Len(RawGroups)
                   /\ \A i \in 1..Len(RawGroups) :
                        /\ result[i].id = RawGroups[i].id
                        /\ FlagOn("members") => MembersUnwrapped(result[i], RawGroups[i])
           /\ (op = "getGroup" /\ FlagOn("members"))
                => MembersUnwrapped(result, RawGroups[1])
C5_Witness ==
    /\ Answered /\ err = NoError /\ op = "getGroups" /\ FlagOn("members")
    /\ Len(result) = 2
    /\ result[1].members = <<Str("5"), Str("9")>>
    /\ result[2].members = <<Str("9"), Str("5")>>

Untouched(g, raw) ==
    /\ DOMAIN g = DOMAIN raw
    /\ \A f \in DOMAIN raw \ {"members"} : g[f] = raw[f]
Framed(g, raw) ==
    /\ Untouched(g, raw)
    /\ ~FlagOn("members") => (g = raw /\ "members" \notin DOMAIN g)

\* C6: normalization changes the members field alone: every other field of
\* every returned group is the raw one, and with members false the returned
\* group is the raw record, with no members field.
C6_OnlyMembersReshaped ==
    (Answered /\ err = NoError)
        => /\ op = "getGroups"
                => \A i \in 1..Len(RawGroups) :
                        i <= Len(result) /\ Framed(result[i], RawGroups[i])
           /\ (op = "getGroup" /\ Len(RawGroups) >= 1) => Framed(result, RawGroups[1])
C6_Witness ==
    /\ Answered /\ err = NoError /\ op = "getGroups"
    /\ FlagOn("members") /\ FlagOn("verifiedProofs")
    /\ Len(result) = 2
    /\ result[2].verifiedProofs = Proofs
    /\ result[2].members = <<Str("5")>>

\* C7 (as claimed): getGroup fails validation, with no transport call,
\* whenever groupId is not a non-empty string.
C7_EmptyGroupIdRejected ==
    (op = "getGroup" /\ ~(groupId.kind = "string" /\ groupId.val # ""))
        => (err.name = "InvalidParameterError" /\ calls = 0)

WellTypedFlag(name) == Get(options, name).kind \in {"undefined", "boolean"}
WellTypedOptions ==
    \/ options = Undefined
    \/ /\ options.kind = "object"
       /\ options # Null
       /\ WellTypedFlag("members")
       /\ WellTypedFlag("verifiedProofs")

\* C7 (amended): getGroup fails validation, with no transport call, whenever
\* groupId is not a string; the empty string is a string and passes the check,
\* so that with well-typed options the query for id "" is sent.
C7_NonStringGroupIdRejected ==
    op = "getGroup"
        => /\ groupId.kind # "string"
                => /\ err = InvalidParameterError("groupId", "string")
                   /\ calls = 0
                   /\ query = NoQuery
           /\ (groupId = Str("") /\ WellTypedOptions)
                => (calls = 1 /\ HasToken(query, "id: \"\""))
C7_Witness ==
    /\ op = "getGroup" /\ pc = "done"
    /\ groupId = Num("42")
    /\ err = InvalidParameterError("groupId", "string")

IdIsString == op = "getGroup" => groupId.kind = "string"
SomeCheckFails == ~IdIsString \/ ~WellTypedOptions

\* C8: every check on the arguments comes before the query is built and sent:
\* if a check fails the error is surfaced and no transport call is made; if
\* all pass exactly one transport call is made.
C8_ValidationBeforeTransport ==
    pc # "idle"
        => /\ SomeCheckFails
                => /\ pc = "done"
                   /\ err.name = IF IdIsString /\ options = Null
                                 THEN "TypeError" ELSE "InvalidParameterError"
                   /\ calls = 0
                   /\ query = NoQuery
           /\ ~SomeCheckFails => (calls = 1 /\ query # NoQuery)
C8_Witness ==
    /\ pc = "done" /\ op = "getGroups"
    /\ Get(options, "verifiedProofs") = Num("1")
    /\ err = InvalidParameterError("verifiedProofs", "boolean")
    /\ calls = 0

\* C9: when the transport call fails, the reader surfaces that same error,
\* makes no further transport call and performs no normalization.
C9_TransportErrorSurfaced ==
    (pc = "done" /\ "rejected" \in DOMAIN response)
        => /\ err = response.rejected
           /\ calls = 1
           /\ ~normalized
           /\ result = Undefined
C9_Witness ==
    /\ pc = "done" /\ "rejected" \in DOMAIN response
    /\ err = TransportError("network")
    /\ calls = 1

LacksIdentifier(raw) ==
    \E j \in 1..Len(raw.members) : "identityCommitment" \notin DOMAIN raw.members[j]
SomeRecordLacksIdentifier ==
    \/ op = "getGroups" /\ \E i \in 1..Len(RawGroups) : LacksIdentifier(RawGroups[i])
    \/ op = "getGroup" /\ Len(RawGroups) >= 1 /\ LacksIdentifier(RawGroups[1])

\* C10: with members true, a raw member record without its identifier field
\* makes the reader fail, instead of returning a members sequence that holds
\* an absent element.
C10_MissingIdentifierFails ==
    (Answered /\ FlagOn("members") /\ SomeRecordLacksIdentifier) => err # NoError

====
